---- MODULE Spec2Model ----
(***************************************************************************)
(* Adaptive speed control of a stepper (stepper_ir.ino): IR remote sets a  *)
(* commanded level, an ultrasonic ranger reduces it near obstacles, an LED *)
(* signals proximity with its own hysteresis.  One action is one pass of   *)
(* loop(); millis() and the peripherals are inputs of the pass.            *)
(***************************************************************************)
EXTENDS Integers, FiniteSets, Sequences, TLC

\* ---------------- Tunables (stepper_ir.ino:40-50, 69-70) ----------------
RPM_L1 == 6
RPM_L9 == 15
BASE_SAFE_CM == 10
CM_PER_LEVEL == 5
MIN_CM == 2
HYSTERESIS_CM == 3
ECHO_TIMEOUT_US == 25000
LED_ON_CM == 20
LED_OFF_CM == 25
\* value readUltrasonicCm returns when pulseIn timed out
NO_ECHO == -1
\* microseconds of echo per centimetre
US_PER_CM == 58
\* columns of the display; strlen of the two messages of the second row
LCD_COLS == 16
OBSTACLE_MSG_LEN == 17
NORMAL_MSG_LEN == 15

\* ---------------- Bounds of the model ----------------
\* largest distance (cm) enumerated densely; the timeout-bounded maximum is
\* always added to the inputs
MaxCm == 60

\* ---------------- Arduino core macros/functions used by the sketch ------
TruncDiv(a, b) ==
  IF (a >= 0) = (b > 0) THEN (IF a >= 0 THEN a \div b ELSE (-a) \div (-b))
  ELSE -((IF a >= 0 THEN a ELSE -a) \div (IF b > 0 THEN b ELSE -b))

constrain(x, lo, hi) == IF x < lo THEN lo ELSE IF x > hi THEN hi ELSE x

map_rounded(x, in_min, in_max, out_min, out_max) ==
  TruncDiv(2 * (x - in_min) * (out_max - out_min) + (in_max - in_min),
           2 * (in_max - in_min)) + out_min

\* long map(long x, ...): integer arithmetic, the quotient is truncated
map(x, in_min, in_max, out_min, out_max) ==
  TruncDiv((x - in_min) * (out_max - out_min), in_max - in_min) + out_min

\* ---------------- Helpers ----------------
levelToRpm_fromZero(lvl) ==
  IF lvl <= 0 THEN 0 ELSE 8 * RPM_L1 + (RPM_L9 - RPM_L1) * lvl

\* rate in units of 1/8 RPM (RPM_L1 + (RPM_L9-RPM_L1)*(lvl-1)/8 is exact there)
levelToRpm(lvl) ==
  IF lvl <= 0 THEN 0 ELSE 8 * RPM_L1 + (RPM_L9 - RPM_L1) * (lvl - 1)

computeSafeCm_noBase(lvl) ==
  IF lvl <= 0 THEN BASE_SAFE_CM ELSE CM_PER_LEVEL * lvl

computeSafeCm(lvl) ==
  IF lvl <= 0 THEN BASE_SAFE_CM ELSE BASE_SAFE_CM + CM_PER_LEVEL * lvl

levelFromIrCommand(cmd) ==
  CASE cmd = 22 -> 0    \* 0x16
    [] cmd = 12 -> 1    \* 0x0C
    [] cmd = 24 -> 2    \* 0x18
    [] cmd = 94 -> 3    \* 0x5E
    [] cmd = 8  -> 4    \* 0x08
    [] cmd = 28 -> 5    \* 0x1C
    [] cmd = 90 -> 6    \* 0x5A
    [] cmd = 66 -> 7    \* 0x42
    [] cmd = 82 -> 8    \* 0x52
    [] cmd = 74 -> 9    \* 0x4A
    [] OTHER -> -1

\* duration = pulseIn(...): 0 on timeout, else the echo width in microseconds
readUltrasonicCm(duration) ==
  IF duration = 0 THEN NO_ECHO
  ELSE LET cm == duration \div US_PER_CM
       IN  IF cm < MIN_CM THEN MIN_CM ELSE cm

applyLevel_oneBased(lvl) ==
  LET e == constrain(lvl, 0, 9) + 1
  IN  [effectiveLevel |-> e, speed |-> levelToRpm(e)]

\* effectiveLevel and the argument of stepper.setSpeed
applyLevel(lvl) ==
  LET e == constrain(lvl, 0, 9)
  IN  [effectiveLevel |-> e, speed |-> levelToRpm(e)]

\* ---------------- The regulation context ----------------
\* ctx: the globals of the sketch (and the rate programmed in the driver)
CtxAfterSetup ==
  [commandedLevel |-> 0, effectiveLevel |-> applyLevel(0).effectiveLevel,
   speed |-> applyLevel(0).speed, reducing |-> FALSE,
   distanceCm |-> -1, ledState |-> FALSE]

IrHandling_repeatAccepted(c, ir) ==
  IF ir.decoded
  THEN LET lvl == levelFromIrCommand(ir.command)
       IN  IF lvl >= 0 /\ lvl <= 9 THEN [c EXCEPT !.commandedLevel = lvl] ELSE c
  ELSE c

\* ---- IR handling: ir = [decoded, repeat, command] ----
IrHandling(c, ir) ==
  IF ir.decoded /\ ~ir.repeat
  THEN LET lvl == levelFromIrCommand(ir.command)
       IN  IF lvl >= 0 /\ lvl <= 9 THEN [c EXCEPT !.commandedLevel = lvl] ELSE c
  ELSE c

\* c with reducing := red and the result a of applyLevel stored
SetLevel(c, red, a) ==
  [c EXCEPT !.reducing = red, !.effectiveLevel = a.effectiveLevel,
            !.speed = a.speed]

RegulateClear_noSetSpeed(c) ==
  [c EXCEPT !.reducing = FALSE, !.effectiveLevel = constrain(c.commandedLevel, 0, 9)]

\* no echo, or clearly beyond the safe distance: use commanded
RegulateClear(c) == SetLevel(c, FALSE, applyLevel(c.commandedLevel))

RegulateReduce_floor1(c) ==
  LET safeCm == computeSafeCm(c.commandedLevel)
      clamped == constrain(c.distanceCm, MIN_CM, safeCm)
      reduced == IF c.commandedLevel = 0 THEN 0
                 ELSE map(clamped, MIN_CM, safeCm, 1, c.commandedLevel)
  IN  SetLevel(c, reduced < c.commandedLevel, applyLevel(reduced))

RegulateReduce_inverted(c) ==
  LET safeCm == computeSafeCm(c.commandedLevel)
      clamped == constrain(c.distanceCm, MIN_CM, safeCm)
      reduced == IF c.commandedLevel = 0 THEN 0
                 ELSE map(clamped, MIN_CM, safeCm, c.commandedLevel, 0)
  IN  SetLevel(c, reduced < c.commandedLevel, applyLevel(reduced))

RegulateReduce_flagAlways(c) ==
  LET safeCm == computeSafeCm(c.commandedLevel)
      clamped == constrain(c.distanceCm, MIN_CM, safeCm)
      reduced == IF c.commandedLevel = 0 THEN 0
                 ELSE map(clamped, MIN_CM, safeCm, 0, c.commandedLevel)
  IN  SetLevel(c, reduced <= c.commandedLevel, applyLevel(reduced))

\* reduce proportionally: MIN_CM..safe -> 0..commandedLevel
RegulateReduce(c) ==
  LET safeCm == computeSafeCm(c.commandedLevel)
      clamped == constrain(c.distanceCm, MIN_CM, safeCm)
      reduced == IF c.commandedLevel = 0 THEN 0
                 ELSE map(clamped, MIN_CM, safeCm, 0, c.commandedLevel)
  IN  SetLevel(c, reduced < c.commandedLevel, applyLevel(reduced))

Regulate_eagerRestore(c) ==
  LET safeCm == computeSafeCm(c.commandedLevel)
  IN  IF c.distanceCm < 0 THEN RegulateClear(c)
      ELSE IF c.distanceCm < safeCm THEN RegulateReduce(c)
      ELSE IF c.distanceCm >= safeCm + HYSTERESIS_CM THEN RegulateClear(c)
      ELSE c

Regulate_noEchoAsZero(c) ==
  LET safeCm == computeSafeCm(c.commandedLevel)
  IN  IF c.distanceCm < safeCm THEN RegulateReduce(c)
      ELSE IF c.distanceCm > safeCm + HYSTERESIS_CM THEN RegulateClear(c)
      ELSE c

Regulate_noEchoHolds(c) ==
  LET safeCm == computeSafeCm(c.commandedLevel)
  IN  IF c.distanceCm < 0 THEN c
      ELSE IF c.distanceCm < safeCm THEN RegulateReduce(c)
      ELSE IF c.distanceCm > safeCm + HYSTERESIS_CM THEN RegulateClear(c)
      ELSE c

Regulate_lateRestore(c) ==
  LET safeCm == computeSafeCm(c.commandedLevel)
  IN  IF c.distanceCm < 0 THEN RegulateClear(c)
      ELSE IF c.distanceCm < safeCm THEN RegulateReduce(c)
      ELSE IF c.distanceCm > safeCm + HYSTERESIS_CM + 1 THEN RegulateClear(c)
      ELSE c

\* ---- regulation on the sample already stored in c.distanceCm ----
Regulate(c) ==
  LET safeCm == computeSafeCm(c.commandedLevel)
  IN  IF c.distanceCm < 0 THEN RegulateClear(c)
      ELSE IF c.distanceCm < safeCm THEN RegulateReduce(c)
      ELSE IF c.distanceCm > safeCm + HYSTERESIS_CM THEN RegulateClear(c)
      ELSE c

LedControl_noBand(c) ==
  IF c.distanceCm >= 0
  THEN LET on == IF ~c.ledState /\ c.distanceCm < LED_ON_CM THEN TRUE ELSE c.ledState
           off == IF on /\ c.distanceCm > LED_ON_CM THEN FALSE ELSE on
       IN  [c EXCEPT !.ledState = off]
  ELSE c

LedControl_whileReducing(c) ==
  IF c.distanceCm >= 0
  THEN LET on == IF ~c.ledState /\ (c.distanceCm < LED_ON_CM \/ c.reducing)
                 THEN TRUE ELSE c.ledState
           off == IF on /\ c.distanceCm > LED_OFF_CM THEN FALSE ELSE on
       IN  [c EXCEPT !.ledState = off]
  ELSE c

\* ---- LED control with hysteresis ----
LedControl(c) ==
  IF c.distanceCm >= 0
  THEN LET on == IF ~c.ledState /\ c.distanceCm < LED_ON_CM THEN TRUE ELSE c.ledState
           off == IF on /\ c.distanceCm > LED_OFF_CM THEN FALSE ELSE on
       IN  [c EXCEPT !.ledState = off]
  ELSE c

\* ---- the block run when now - lastPing >= PING_INTERVAL_MS ----
SamplingTick(c, duration) ==
  LedControl(Regulate([c EXCEPT !.distanceCm = readUltrasonicCm(duration)]))

\* ---- updateLcd: characters sent to each row ----
Max(a, b) == IF a > b THEN a ELSE b
Min(a, b) == IF a < b THEN a ELSE b

\* characters printf's %d produces for n
DecLen(n) ==
  IF n < 0 THEN 1 + (IF -n < 10 THEN 1 ELSE IF -n < 100 THEN 2 ELSE 3)
  ELSE IF n < 10 THEN 1 ELSE IF n < 100 THEN 2 ELSE IF n < 1000 THEN 3 ELSE 4

\* strlen(line1) after snprintf(line1, 17, "L:%d E:%d D:%3ldcm", ...)
Line1Len(c) ==
  LET shown == IF c.distanceCm < 0 THEN 0 ELSE c.distanceCm
  IN  Min(LCD_COLS,
          2 + DecLen(c.commandedLevel) + 3 + DecLen(c.effectiveLevel) + 3
            + Max(3, DecLen(shown)) + 2)

\* lcd.print(text) followed by the padding loop for (i = strlen; i < 16; i++)
PrintPadded(len) == len + Max(0, LCD_COLS - len)

updateLcd(c) ==
  [row0 |-> PrintPadded(Line1Len(c)),
   row1 |-> IF c.distanceCm >= 0 /\ c.distanceCm < 20
            THEN PrintPadded(OBSTACLE_MSG_LEN)
            ELSE NORMAL_MSG_LEN]

\* ---------------- Inputs of a pass ----------------
\* the ten digit keys and one key that is no digit
IrCommands == {22, 12, 24, 94, 8, 28, 90, 66, 82, 74, 69}

IrEvents ==
  {[decoded |-> FALSE, repeat |-> FALSE, command |-> 0]}
  \cup {[decoded |-> TRUE, repeat |-> FALSE, command |-> k] : k \in IrCommands}
  \cup {[decoded |-> TRUE, repeat |-> TRUE, command |-> 74]}

\* the digit a key stands for
DigitKeys ==
  [k \in {22, 12, 24, 94, 8, 28, 90, 66, 82, 74} |->
     CASE k = 22 -> 0 [] k = 12 -> 1 [] k = 24 -> 2 [] k = 94 -> 3
       [] k = 8 -> 4 [] k = 28 -> 5 [] k = 90 -> 6 [] k = 66 -> 7
       [] k = 82 -> 8 [] k = 74 -> 9]

\* pulseIn results: timeout, echoes of 1..MaxCm cm, the longest echo
EchoDurations ==
  {0} \cup {US_PER_CM * k + 29 : k \in 1..MaxCm} \cup {ECHO_TIMEOUT_US - 1}

\* ---------------- State ----------------
VARIABLES pc, commandedLevel, effectiveLevel, reducing, distanceCm, ledState,
          speed, steps, sampled, lcdRow0, lcdRow1, twin, irSeen, call

vars == <<pc, commandedLevel, effectiveLevel, reducing, distanceCm, ledState,
          speed, steps, sampled, lcdRow0, lcdRow1, twin, irSeen, call>>

\* pc: the block of loop() to run next: "ir", "ping", "lcd", "drive"
\* speed: argument of the last stepper.setSpeed (1/8 RPM)
\* steps: stepper.step(1) calls of the current pass of loop()
\* sampled: the current pass ran the ultrasonic & regulation block
\* lcdRow0, lcdRow1: characters the last updateLcd sent to each row
\* twin: the globals of a second controller fed the same samples (SpecTwin)
\* irSeen: IrReceiver.decodedIRData handled by the current pass (SpecCmd)
\* call: arguments and results of one call of a helper (SpecPure)

Ctx ==
  [commandedLevel |-> commandedLevel, effectiveLevel |-> effectiveLevel,
   speed |-> speed, reducing |-> reducing, distanceCm |-> distanceCm,
   ledState |-> ledState]

Store(c) ==
  /\ commandedLevel' = c.commandedLevel
  /\ effectiveLevel' = c.effectiveLevel
  /\ speed' = c.speed
  /\ reducing' = c.reducing
  /\ distanceCm' = c.distanceCm
  /\ ledState' = c.ledState

globals == <<commandedLevel, effectiveLevel, reducing, distanceCm, ledState,
             speed>>

\* nothing decoded: IrReceiver.decode() returned false
NoIrEvent == [decoded |-> FALSE, repeat |-> FALSE, command |-> 0]

NoCall == [fn |-> "none", done |-> TRUE]

\* the globals and peripherals when setup() returns
InitProgram ==
  /\ pc = "ir"
  /\ commandedLevel = CtxAfterSetup.commandedLevel
  /\ effectiveLevel = CtxAfterSetup.effectiveLevel
  /\ speed = CtxAfterSetup.speed
  /\ reducing = CtxAfterSetup.reducing
  /\ distanceCm = CtxAfterSetup.distanceCm
  /\ ledState = CtxAfterSetup.ledState
  /\ steps = 0
  /\ sampled = FALSE
  /\ lcdRow0 = 0
  /\ lcdRow1 = 0
  /\ twin = CtxAfterSetup
  /\ irSeen = NoIrEvent

\* the state when setup() returns
Init == InitProgram /\ call = NoCall

\* loop() runs its four blocks in order; pc names the next one.  millis() is
\* read from the clock, so whether an interval has elapsed is an input of the
\* pass: each timed block has a due and a not-due action.

\* ---- loop(): IR handling (first block of a pass) ----
IrBlock(ir) ==
  /\ pc = "ir"
  /\ Store(IrHandling(Ctx, ir))
  /\ steps' = 0
  /\ sampled' = FALSE
  /\ pc' = "ping"
  /\ UNCHANGED <<lcdRow0, lcdRow1>>

\* ---- loop(): now - lastPing >= PING_INTERVAL_MS ----
PingBlock(duration) ==
  /\ pc = "ping"
  /\ Store(SamplingTick(Ctx, duration))
  /\ sampled' = TRUE
  /\ pc' = "lcd"
  /\ UNCHANGED <<steps, lcdRow0, lcdRow1>>

\* ---- loop(): now - lastPing < PING_INTERVAL_MS ----
PingSkipBlock ==
  /\ pc = "ping"
  /\ pc' = "lcd"
  /\ UNCHANGED <<globals, steps, sampled, lcdRow0, lcdRow1>>

\* ---- loop(): now - lastLcd >= LCD_REFRESH_MS ----
LcdBlock ==
  /\ pc = "lcd"
  /\ lcdRow0' = updateLcd(Ctx).row0
  /\ lcdRow1' = updateLcd(Ctx).row1
  /\ pc' = "drive"
  /\ UNCHANGED <<globals, steps, sampled>>

\* ---- loop(): now - lastLcd < LCD_REFRESH_MS ----
LcdSkipBlock ==
  /\ pc = "lcd"
  /\ pc' = "drive"
  /\ UNCHANGED <<globals, steps, sampled, lcdRow0, lcdRow1>>

DriveCalls_always(lvl) == IF lvl >= 0 THEN 1 ELSE 0

\* stepper.step(1) calls of the drive block at effective level lvl
DriveCalls(lvl) == IF lvl > 0 THEN 1 ELSE 0

\* ---- loop(): drive the stepper; the pass ends ----
DriveBlock ==
  /\ pc = "drive"
  /\ steps' = steps + DriveCalls(effectiveLevel)
  /\ pc' = "ir"
  /\ UNCHANGED <<globals, sampled, lcdRow0, lcdRow1>>

side == <<twin, irSeen, call>>

IrStep == \E ir \in IrEvents : IrBlock(ir) /\ UNCHANGED side
PingStep == \E duration \in EchoDurations : PingBlock(duration) /\ UNCHANGED side
PingSkip == PingSkipBlock /\ UNCHANGED side
LcdStep == LcdBlock /\ UNCHANGED side
LcdSkip == LcdSkipBlock /\ UNCHANGED side
DriveStep == DriveBlock /\ UNCHANGED side

Next == IrStep \/ PingStep \/ PingSkip \/ LcdStep \/ LcdSkip \/ DriveStep

Spec == Init /\ [][Next]_vars

\* ---------------- Two controllers on the same samples ----------------
\* inputs of the paired run: no key, a repeat, an unknown key, digits 0, 2, 5,
\* 9; echoes around the thresholds of the lamp and of those levels
TwinIrEvents ==
  {e \in IrEvents : ~e.decoded \/ e.command \in {22, 24, 28, 74, 69}}

TwinDurations ==
  {0} \cup {US_PER_CM * k + 29 : k \in {1, 12, 19, 20, 22, 25, 26, 36, 59}}

TwinIrStep ==
  \E ir \in TwinIrEvents, ir2 \in TwinIrEvents :
    IrBlock(ir) /\ twin' = IrHandling(twin, ir2) /\ UNCHANGED <<irSeen, call>>

TwinPingStep ==
  \E duration \in TwinDurations :
    /\ PingBlock(duration)
    /\ twin' = SamplingTick(twin, duration)
    /\ UNCHANGED <<irSeen, call>>

TwinPingSkip == PingSkipBlock /\ UNCHANGED side
TwinLcdStep == LcdBlock /\ UNCHANGED side
TwinLcdSkip == LcdSkipBlock /\ UNCHANGED side
TwinDriveStep == DriveBlock /\ UNCHANGED side

NextTwin ==
  TwinIrStep \/ TwinPingStep \/ TwinPingSkip \/ TwinLcdStep \/ TwinLcdSkip
  \/ TwinDriveStep

SpecTwin == Init /\ [][NextTwin]_vars

\* ---------------- The run that records the decoded IR data ----------------
\* every key, echoes around the thresholds (TwinDurations)
CmdIrStep ==
  \E ir \in IrEvents : IrBlock(ir) /\ irSeen' = ir /\ UNCHANGED <<twin, call>>

CmdPingStep ==
  \E duration \in TwinDurations : PingBlock(duration) /\ UNCHANGED side

CmdPingSkip == PingSkipBlock /\ UNCHANGED side
CmdLcdStep == LcdBlock /\ UNCHANGED side
CmdLcdSkip == LcdSkipBlock /\ UNCHANGED side
CmdDriveStep == DriveBlock /\ UNCHANGED side

NextCmd ==
  CmdIrStep \/ CmdPingStep \/ CmdPingSkip \/ CmdLcdStep \/ CmdLcdSkip
  \/ CmdDriveStep

SpecCmd == Init /\ [][NextCmd]_vars

\* loop() is called forever and millis() grows, so a pass in which the ping
\* interval has elapsed comes again and again
LiveIrEvents == {e \in IrEvents : ~e.decoded \/ e.command \in {22, 12, 90, 74}}

LiveDurations == {0} \cup {US_PER_CM * k + 29 : k \in {1, 16, 22, 41, 59}}

LiveIrStep == \E ir \in LiveIrEvents : IrBlock(ir) /\ UNCHANGED side

LivePingStep ==
  \E duration \in LiveDurations : PingBlock(duration) /\ UNCHANGED side

LivePingSkip == PingSkipBlock /\ UNCHANGED side
LiveLcdStep == LcdBlock /\ UNCHANGED side
LiveLcdSkip == LcdSkipBlock /\ UNCHANGED side
LiveDriveStep == DriveBlock /\ UNCHANGED side

NextLive ==
  LiveIrStep \/ LivePingStep \/ LivePingSkip \/ LiveLcdStep \/ LiveLcdSkip
  \/ LiveDriveStep

SpecLive ==
  Init /\ [][NextLive]_vars /\ WF_vars(NextLive) /\ SF_vars(LivePingStep)

\* ---------------- One call of a helper on enumerated arguments ------------
Levels == 0..9

\* effectiveLevel left by an earlier tick, before the command changed to lvl
PriorLevels == {0, 9}

\* the globals before a tick: commanded lvl, effective level prior
CtxBefore(lvl, prior) ==
  [commandedLevel |-> lvl, effectiveLevel |-> applyLevel(prior).effectiveLevel,
   speed |-> applyLevel(prior).speed, reducing |-> prior < lvl,
   distanceCm |-> NO_ECHO, ledState |-> FALSE]

\* the arguments of the call: two levels, or a level, two valid samples and
\* the effective levels before the two ticks
InitPure ==
  /\ InitProgram
  /\ \/ \E f \in {"computeSafeCm", "levelToRpm"}, x \in Levels, y \in Levels :
          call = [fn |-> f, done |-> FALSE, lvl |-> 0, a |-> x, b |-> y,
                  pa |-> 0, pb |-> 0, ra |-> 0, rb |-> 0]
     \/ \E l \in Levels, x \in MIN_CM..MaxCm, y \in MIN_CM..MaxCm,
           p \in PriorLevels, q \in PriorLevels :
          call = [fn |-> "Regulate", done |-> FALSE, lvl |-> l, a |-> x,
                  b |-> y, pa |-> p, pb |-> q, ra |-> 0, rb |-> 0]

program == <<pc, commandedLevel, effectiveLevel, reducing, distanceCm,
             ledState, speed, steps, sampled, lcdRow0, lcdRow1, twin, irSeen>>

ApplyComputeSafeCm ==
  /\ call.fn = "computeSafeCm" /\ ~call.done
  /\ call' = [call EXCEPT !.done = TRUE, !.ra = computeSafeCm(call.a),
                          !.rb = computeSafeCm(call.b)]
  /\ UNCHANGED program

ApplyLevelToRpm ==
  /\ call.fn = "levelToRpm" /\ ~call.done
  /\ call' = [call EXCEPT !.done = TRUE, !.ra = levelToRpm(call.a),
                          !.rb = levelToRpm(call.b)]
  /\ UNCHANGED program

\* the regulation block on sample a from one prior state, on b from another
ApplyRegulate ==
  /\ call.fn = "Regulate" /\ ~call.done
  /\ call' =
       [call EXCEPT
          !.done = TRUE,
          !.ra = Regulate([CtxBefore(call.lvl, call.pa)
                             EXCEPT !.distanceCm = call.a]).effectiveLevel,
          !.rb = Regulate([CtxBefore(call.lvl, call.pb)
                             EXCEPT !.distanceCm = call.b]).effectiveLevel]
  /\ UNCHANGED program

NextPure == ApplyComputeSafeCm \/ ApplyLevelToRpm \/ ApplyRegulate

SpecPure == InitPure /\ [][NextPure]_vars

\* ---------------- Properties ----------------
SafeCm == computeSafeCm(commandedLevel)
ValidSample == distanceCm >= 0
InBand == ValidSample /\ SafeCm <= distanceCm /\ distanceCm <= SafeCm + HYSTERESIS_CM
InReduction == ValidSample /\ MIN_CM <= distanceCm /\ distanceCm < SafeCm

\* C1: after every sampling tick the effective level does not exceed the
\* commanded level.
C1_NeverAboveCommanded == sampled => effectiveLevel <= commandedLevel

\* C2: a sampling tick with commanded level 0 ends with effective level 0 and
\* no step issued in that pass, whatever the sample and the previous level.
C2_ZeroMeansStop ==
  (sampled /\ commandedLevel = 0) =>
     (effectiveLevel = 0 /\ (pc = "ir" => steps = 0))

\* C3: a sampling tick on NO_ECHO ends with effectiveLevel = commandedLevel
\* and reducing = FALSE.
C3_NoEchoRunsCommanded ==
  (sampled /\ distanceCm < 0) =>
     (effectiveLevel = commandedLevel /\ reducing = FALSE)

C3_Witness ==
  sampled /\ distanceCm = NO_ECHO /\ commandedLevel = 9 /\ effectiveLevel = 9
  /\ ~reducing

\* C4: a sampling tick whose sample lies in [SafeThreshold(L),
\* SafeThreshold(L) + HYSTERESIS_CM] leaves effectiveLevel, reducing and the
\* programmed rate as they were before the tick.
C4_BandHolds ==
  [][(pc = "ping" /\ sampled' /\ InBand') =>
       (effectiveLevel' = effectiveLevel /\ reducing' = reducing
        /\ speed' = speed)]_vars

C4_Witness ==
  sampled /\ InBand /\ reducing /\ effectiveLevel < commandedLevel
  /\ distanceCm = SafeCm + HYSTERESIS_CM

\* C5 (as stated): for L > 0 every valid sample d >= SafeThreshold(L) ends the
\* tick with effectiveLevel = L.
C5_AtOrAboveThreshold ==
  (sampled /\ commandedLevel > 0 /\ ValidSample /\ distanceCm >= SafeCm)
     => effectiveLevel = commandedLevel

\* C5 (amended): for L > 0 every valid sample d > SafeThreshold(L) +
\* HYSTERESIS_CM ends the tick with effectiveLevel = L.
C5_AboveBand ==
  (sampled /\ commandedLevel > 0 /\ ValidSample
   /\ distanceCm > SafeCm + HYSTERESIS_CM)
     => effectiveLevel = commandedLevel

C5_Witness ==
  sampled /\ commandedLevel = 5 /\ distanceCm = SafeCm + HYSTERESIS_CM + 1
  /\ effectiveLevel = 5

RoundDiv(a, b) == (2 * a + b) \div (2 * b)

\* C6 (as stated): in the reduction branch (L in 1..9, MIN_CM <= d <
\* SafeThreshold(L)) the effective level is L*(d-MIN_CM)/(SafeThreshold(L)-MIN_CM)
\* rounded to the nearest integer.
C6_RoundedInterpolation ==
  (sampled /\ commandedLevel \in 1..9 /\ InReduction) =>
     effectiveLevel =
       RoundDiv(commandedLevel * (distanceCm - MIN_CM), SafeCm - MIN_CM)

\* C6 (amended): in the reduction branch the effective level is
\* L*(d-MIN_CM)/(SafeThreshold(L)-MIN_CM) rounded down.
C6_TruncatedInterpolation ==
  (sampled /\ commandedLevel \in 1..9 /\ InReduction) =>
     /\ effectiveLevel * (SafeCm - MIN_CM)
          <= commandedLevel * (distanceCm - MIN_CM)
     /\ commandedLevel * (distanceCm - MIN_CM)
          < (effectiveLevel + 1) * (SafeCm - MIN_CM)

C6_Witness ==
  sampled /\ commandedLevel = 5 /\ distanceCm = 20 /\ effectiveLevel = 2

\* C7: for L > 0 a sample equal to MIN_CM ends the tick with
\* effectiveLevel = 0 and reducing = TRUE.
C7_MinDistanceStops ==
  (sampled /\ commandedLevel > 0 /\ distanceCm = MIN_CM) =>
     (effectiveLevel = 0 /\ reducing = TRUE)

C7_Witness ==
  sampled /\ commandedLevel = 9 /\ distanceCm = MIN_CM /\ effectiveLevel = 0
  /\ reducing /\ pc = "ir" /\ steps = 0

\* C8: after every sampling tick reducing is TRUE iff
\* effectiveLevel < commandedLevel.
C8_ReducingIffBelow ==
  sampled => (reducing <=> effectiveLevel < commandedLevel)

\* C9: the lamp starts OFF; a sampling tick turns it ON from OFF exactly when
\* the sample is valid and below LED_ON_CM, OFF from ON exactly when the
\* sample is valid and above LED_OFF_CM; NO_ECHO, a sample in
\* [LED_ON_CM, LED_OFF_CM] or a pass without a tick leave it unchanged.
C9_LedStep ==
  IF pc = "ping" /\ sampled' /\ ValidSample'
  THEN /\ (~ledState) => (ledState' <=> distanceCm' < LED_ON_CM)
       /\ ledState => (~ledState' <=> distanceCm' > LED_OFF_CM)
  ELSE ledState' = ledState

C9_LedHysteresis == (ledState = FALSE) /\ [][C9_LedStep]_vars

C9_Witness ==
  sampled /\ ledState /\ distanceCm = LED_ON_CM + 1

\* C10: two controllers fed the same samples and different commands have the
\* same lamp state after every pass.
C10_LedIndependent == ledState = twin.ledState

C10_Witness ==
  /\ sampled /\ ledState /\ twin.ledState
  /\ commandedLevel # twin.commandedLevel
  /\ effectiveLevel # twin.effectiveLevel
  /\ reducing # twin.reducing

\* C11: in the IR-handling step a decoded non-repeat command whose code is a
\* digit key sets commandedLevel to that digit, any other decoded command, a
\* repeat or no command leaves it unchanged; no other step changes
\* commandedLevel, which is always in 0..9.
C11_CommandStep ==
  IF pc = "ir"
  THEN IF irSeen'.decoded /\ ~irSeen'.repeat
          /\ irSeen'.command \in DOMAIN DigitKeys
       THEN commandedLevel' = DigitKeys[irSeen'.command]
       ELSE commandedLevel' = commandedLevel
  ELSE commandedLevel' = commandedLevel

C11_CommandRegister ==
  [](commandedLevel \in 0..9) /\ [][C11_CommandStep]_vars

C11_Witness ==
  /\ pc = "ping" /\ irSeen.decoded /\ irSeen.repeat /\ irSeen.command = 74
  /\ commandedLevel = 5

\* C12: computeSafeCm is non-decreasing over levels 0..9, is BASE_SAFE_CM at
\* level 0 and BASE_SAFE_CM + CM_PER_LEVEL * level for level 1..9.
C12_SafeCmMonotone ==
  (call.fn = "computeSafeCm" /\ call.done) =>
     /\ (call.a <= call.b => call.ra <= call.rb)
     /\ (call.a = 0 => call.ra = BASE_SAFE_CM)
     /\ (call.a \in 1..9 => call.ra = BASE_SAFE_CM + CM_PER_LEVEL * call.a)

C12_Witness ==
  /\ call.fn = "computeSafeCm" /\ call.done
  /\ call.a = 0 /\ call.ra = 10 /\ call.b = 5 /\ call.rb = 35

\* C13: in units of 1/8 RPM, levelToRpm(0) = 0, levelToRpm(1) = 8 * RPM_L1,
\* levelToRpm(9) = 8 * RPM_L9, levelToRpm(5) is their mean, and every level
\* 1..9 gives 8 * RPM_L1 + (RPM_L9 - RPM_L1) * (level - 1).
C13_RateInterpolation ==
  (call.fn = "levelToRpm" /\ call.done) =>
     /\ (call.a = 0 => call.ra = 0)
     /\ (call.a = 1 => call.ra = 8 * RPM_L1)
     /\ (call.a = 9 => call.ra = 8 * RPM_L9)
     /\ (call.a = 5 => 2 * call.ra = 8 * (RPM_L1 + RPM_L9))
     /\ (call.a \in 1..9 =>
           call.ra = 8 * RPM_L1 + (RPM_L9 - RPM_L1) * (call.a - 1))

C13_Witness ==
  call.fn = "levelToRpm" /\ call.done /\ call.a = 5 /\ call.ra = 84

\* C19: for a fixed commanded level and valid samples a <= b below
\* SafeThreshold, the tick on a gives an effective level <= the tick on b,
\* whatever the prior states.
C19_CloserNeverFaster ==
  (call.fn = "Regulate" /\ call.done /\ call.a <= call.b
   /\ call.b < computeSafeCm(call.lvl)) => call.ra <= call.rb

C19_Witness ==
  /\ call.fn = "Regulate" /\ call.done /\ call.lvl = 9 /\ call.pa = 9
  /\ call.pb = 0 /\ call.a = 12 /\ call.b = 54 /\ call.ra = 1 /\ call.rb = 8

\* C14: effectiveLevel is in 0..9 in every reachable state.
C14_EffectiveInRange == effectiveLevel \in 0..9

C14_Witness == sampled /\ effectiveLevel = 9 /\ commandedLevel = 9

\* C15: when a pass of loop() ends, exactly one step was issued in it if
\* effectiveLevel > 0 and none if effectiveLevel = 0, whether or not the pass
\* sampled or refreshed the display; no step is issued before the drive block.
C15_OneStepPerPass ==
  IF pc = "ir"
  THEN steps = (IF effectiveLevel > 0 THEN 1 ELSE 0)
  ELSE steps = 0

C15_Witness == pc = "ir" /\ ~sampled /\ steps = 1 /\ effectiveLevel = 3

\* C16: once the display was refreshed, each of its two rows received exactly
\* LCD_COLS characters in the last refresh.
C16_SixteenPerRow ==
  lcdRow0 # 0 => (lcdRow0 = LCD_COLS /\ lcdRow1 = LCD_COLS)

\* C17: if from some point on the commanded level stays L and every sample is
\* NO_ECHO, then from some point on effectiveLevel = L and reducing = FALSE.
C17_DegradesToCommanded ==
  \A L \in 0..9 :
    <>[](commandedLevel = L /\ distanceCm = NO_ECHO)
      => <>[](effectiveLevel = L /\ ~reducing)

C17_Witness ==
  /\ sampled /\ distanceCm = NO_ECHO /\ commandedLevel = 6
  /\ effectiveLevel = 6 /\ ~reducing /\ ledState

\* C18: in the reduction branch with L in 1..9 the tick ends with
\* effectiveLevel <= L - 1 and reducing = TRUE; with L = 0 and a sample below
\* SafeThreshold(0) it ends with effectiveLevel = 0 and reducing = FALSE.
C18_StrictlyLowered ==
  /\ (sampled /\ commandedLevel \in 1..9 /\ InReduction) =>
        (effectiveLevel <= commandedLevel - 1 /\ reducing = TRUE)
  /\ (sampled /\ commandedLevel = 0 /\ ValidSample /\ distanceCm < SafeCm) =>
        (effectiveLevel = 0 /\ reducing = FALSE)

C18_Witness ==
  sampled /\ commandedLevel = 9 /\ distanceCm = SafeCm - 1
  /\ effectiveLevel = 8 /\ reducing

\* C20: the rate programmed in the driver is levelToRpm(effectiveLevel) in
\* every reachable state, and only the regulation block changes
\* effectiveLevel or the programmed rate (IR handling changes neither).
C20_OnlyTickWrites ==
  (pc # "ping") => (effectiveLevel' = effectiveLevel /\ speed' = speed)

C20_RateMatchesLevel ==
  [](speed = levelToRpm(effectiveLevel)) /\ [][C20_OnlyTickWrites]_vars

C20_Witness ==
  pc = "ping" /\ ~sampled /\ commandedLevel = 0 /\ effectiveLevel = 4
  /\ speed = 75

TypeOK ==
  /\ commandedLevel \in 0..9
  /\ effectiveLevel \in 0..9
  /\ reducing \in BOOLEAN
  /\ ledState \in BOOLEAN
  /\ steps \in 0..1
  /\ pc \in {"ir", "ping", "lcd", "drive"}
  /\ sampled \in BOOLEAN
====
